---------------------------- MODULE Spec2Model ----------------------------
(***************************************************************************)
(* A model of src/model.hpp: the manual loss scaler (ManualGradScaler) and *)
(* the Model that owns it together with the six attribute tensors and      *)
(* their Adam optimizers.                                                  *)
(*                                                                         *)
(* float values.  Every float the scaler produces from its default         *)
(* arguments is 0 or a power of two, so a float is modelled by a code:     *)
(*     0              the value 0.0                                        *)
(*     c in 1..277    the value 2^(c - 150)   (1 is the least subnormal    *)
(*                    2^-149, 277 is 2^127)                                *)
(*     FInf, FNaN     +infinity and not-a-number                           *)
(* Products and quotients round as IEEE-754 binary32 does: a result below  *)
(* 2^-149 is 2^-150 or less, which rounds to 0; a result above 2^127       *)
(* rounds to +infinity.                                                    *)
(***************************************************************************)
EXTENDS Integers, Sequences, FiniteSets, TLC

VARIABLES
    \* ManualGradScaler's fields
    scale, growthFactor, backoffFactor, growthInterval, unskippedSteps, enabled,
    \* the tensors the scaler's operations read and write
    rawLoss,     \* this step's loss
    loss,        \* what scaleGradients returned for it
    grads,       \* the gradient of every parameter (a float code or Undefined)
    \* history of the scaler's calls (read by the properties only)
    last,        \* the latest scaler call: its name, the fields before it, its result
    backGrads,   \* the gradients as the latest backward pass left them
    unscaled,    \* per parameter, the unscaleGradients calls since backward
    window,      \* scale before each of the trailing step() calls that found no
                 \* overflow while enabled, the latest growthInterval of them
    calls,       \* step() calls made so far
    streak,      \* enabled step() calls that found no overflow since the latest
                 \* one that did
    netBackoffs, \* overflow backoffs minus growths that the cap did not clamp
    phase,       \* where the caller is in its training step
    \* Model's construction options
    mixedPrecision, device, maxSteps, warmupLength, refineEvery, stopSplitAt,
    \* Model's tensors and optimizers, by the attribute's name
    attributes,  \* the rows of means, scales, quats, featuresDc, featuresRest, opacities
    optimizers,  \* the moment buffers (expAvg, expAvgSq) of meansOpt, ..., opacitiesOpt
    visCounts,   \* per row, the steps it was seen in since the last refinement
    step,        \* the training step
    \* history of the Model (read by the properties only)
    before,      \* attributes as they were when this step's backward pass ran
    cull,        \* the latest afterTrain's pruning: the keep-mask and what it was applied to
    editedAt     \* the step of the latest structural edit, -1 when there was none

scalerVars == <<scale, growthFactor, backoffFactor, growthInterval, unskippedSteps, enabled>>
tensorVars == <<rawLoss, loss, grads>>
historyVars == <<last, backGrads, unscaled, window, calls, streak, netBackoffs>>
configVars == <<mixedPrecision, device, maxSteps, warmupLength, refineEvery, stopSplitAt>>
modelVars == <<attributes, optimizers, visCounts, step, before, cull, editedAt>>
vars == <<scalerVars, tensorVars, historyVars, phase, configVars, modelVars>>

---------------------------------------------------------------------------
(* binary32 *)

FloatBias == 150
FloatMax == 277
FInf == 278
FNaN == 279
Undefined == 280

Pow2(e) == FloatBias + e

Round(c) == IF c < 1 THEN 0 ELSE IF c > FloatMax THEN FInf ELSE c

FMul(a, b) ==
    IF a = FNaN \/ b = FNaN THEN FNaN
    ELSE IF a = FInf \/ b = FInf THEN (IF a = 0 \/ b = 0 THEN FNaN ELSE FInf)
    ELSE IF a = 0 \/ b = 0 THEN 0
    ELSE Round(a + b - FloatBias)

FDiv(a, b) ==
    IF a = FNaN \/ b = FNaN THEN FNaN
    ELSE IF a = FInf THEN (IF b = FInf THEN FNaN ELSE FInf)
    ELSE IF b = FInf THEN 0
    ELSE IF b = 0 THEN (IF a = 0 THEN FNaN ELSE FInf)
    ELSE IF a = 0 THEN 0
    ELSE Round(a - b + FloatBias)

\* std::min(a, b): b when b < a, else a (so a when either is not-a-number)
FMin(a, b) == IF a # FNaN /\ b # FNaN /\ b < a THEN b ELSE a

---------------------------------------------------------------------------
(* ManualGradScaler *)

DefaultInitScale == Pow2(16)
DefaultGrowth == Pow2(1)
DefaultBackoff == Pow2(-1)
DefaultInterval == 2000
ScaleCap == Pow2(16)

Params == {"means", "scales", "quats", "featuresDc", "featuresRest", "opacities"}

\* The constructor: the four arguments, unskippedSteps(0), enabled(true).
ManualGradScaler(initScale, growth, backoff, interval) ==
    [scale |-> initScale, growthFactor |-> growth, backoffFactor |-> backoff,
     growthInterval |-> interval, unskippedSteps |-> 0, enabled |-> TRUE]

\* (mutant) scaleGradients that multiplies even when disabled
ScaleGradientsAlways(en, s, l) == FMul(l, s)

\* scaleGradients(loss)
ScaleGradients(en, s, l) == IF ~en THEN l ELSE FMul(l, s)

\* (mutant) unscaleGradients that multiplies instead of dividing
UnscaleGradientsMul(en, s, g) == IF ~en \/ g = Undefined THEN g ELSE FMul(g, s)

\* unscaleGradients(grad): grad.div_(scale) unless disabled or undefined
UnscaleGradients(en, s, g) == IF ~en \/ g = Undefined THEN g ELSE FDiv(g, s)

\* (mutant) a scan that looks for infinities only
FoundInfOnlyInf(g) == \E p \in Params : g[p] # Undefined /\ g[p] = FInf

\* step(), the scan: some defined gradient holds an infinity or a NaN
FoundInf(g) == \E p \in Params : g[p] # Undefined /\ (g[p] = FInf \/ g[p] = FNaN)

\* (mutant) a backoff applied twice
BackoffTwice(s, bf) == FMul(FMul(s, bf), bf)

\* step(), line 55
Backoff(s, bf) == FMul(s, bf)

\* step(), lines 61-62
Grow(s, gf) == FMin(FMul(s, gf), ScaleCap)

\* (mutant) step() that forgets to reset unskippedSteps after a growth
StepResultNoReset(en, s, u, gi, gf, bf, g) ==
    IF ~en THEN [scale |-> s, unskippedSteps |-> u, ret |-> TRUE]
    ELSE IF FoundInf(g)
         THEN [scale |-> Backoff(s, bf), unskippedSteps |-> 0, ret |-> FALSE]
         ELSE IF u + 1 >= gi
              THEN [scale |-> Grow(s, gf), unskippedSteps |-> u + 1, ret |-> TRUE]
              ELSE [scale |-> s, unskippedSteps |-> u + 1, ret |-> TRUE]

\* (mutant) step() that keeps its count across an overflow
StepResultKeepsCount(en, s, u, gi, gf, bf, g) ==
    IF ~en THEN [scale |-> s, unskippedSteps |-> u, ret |-> TRUE]
    ELSE IF FoundInf(g)
         THEN [scale |-> Backoff(s, bf), unskippedSteps |-> u, ret |-> FALSE]
         ELSE IF u + 1 >= gi
              THEN [scale |-> Grow(s, gf), unskippedSteps |-> 0, ret |-> TRUE]
              ELSE [scale |-> s, unskippedSteps |-> u + 1, ret |-> TRUE]

\* (mutant) step() that grows one call late
StepResultLate(en, s, u, gi, gf, bf, g) ==
    IF ~en THEN [scale |-> s, unskippedSteps |-> u, ret |-> TRUE]
    ELSE IF FoundInf(g)
         THEN [scale |-> Backoff(s, bf), unskippedSteps |-> 0, ret |-> FALSE]
         ELSE IF u + 1 > gi
              THEN [scale |-> Grow(s, gf), unskippedSteps |-> 0, ret |-> TRUE]
              ELSE [scale |-> s, unskippedSteps |-> u + 1, ret |-> TRUE]

\* step(): the fields after the call and the value returned
StepResult(en, s, u, gi, gf, bf, g) ==
    IF ~en THEN [scale |-> s, unskippedSteps |-> u, ret |-> TRUE]
    ELSE IF FoundInf(g)
         THEN [scale |-> Backoff(s, bf), unskippedSteps |-> 0, ret |-> FALSE]
         ELSE IF u + 1 >= gi
              THEN [scale |-> Grow(s, gf), unskippedSteps |-> 0, ret |-> TRUE]
              ELSE [scale |-> s, unskippedSteps |-> u + 1, ret |-> TRUE]

---------------------------------------------------------------------------
(* the tensors and the caller, as the scaler sees them *)

Devices == {"cpu", "cuda"}

\* (mutant) enabling that does not look at the device
GradScalerIgnoresDevice(mp, dev) == mp

\* Model::Model, line 116
GradScalerEnabled(mp, dev) == mp /\ dev # "cpu"

\* the loss of a step and the gradient of the unscaled loss in every parameter
Losses == {Pow2(0), Pow2(-3)}
TrueGrad(l) == l

NoCall ==
    [op |-> "none", scale |-> 0, unskippedSteps |-> 0, foundInf |-> FALSE,
     ret |-> TRUE, arg |-> 0, param |-> "none"]

NoGrads == [p \in Params |-> Undefined]

NoCount == [p \in Params |-> 0]

\* backward(): the parameters in ps get a gradient; the gradient of
\* l = factor * loss is factor times that of loss, except that reduced
\* precision may leave a non-finite value in one parameter
Gradients(l, ps, bad, kind) ==
    [p \in Params |-> IF p \notin ps THEN Undefined
                      ELSE IF p = bad THEN kind ELSE l]

GradientChoices(l, ps) ==
    {Gradients(l, ps, "none", FNaN)}
        \cup {Gradients(l, ps, p, k) : p \in ps, k \in {FInf, FNaN}}

\* the record of a call, for the properties
Call(op, arg, param, found, ret) ==
    [op |-> op, scale |-> scale, unskippedSteps |-> unskippedSteps,
     foundInf |-> found, ret |-> ret, arg |-> arg, param |-> param]

\* what one step() call does to the scaler's fields
StepFields(g) ==
    LET r == StepResult(enabled, scale, unskippedSteps, growthInterval,
                        growthFactor, backoffFactor, g)
    IN  /\ scale' = r.scale
        /\ unskippedSteps' = r.unskippedSteps
        /\ last' = Call("step", 0, "none", FoundInf(g), r.ret)
        /\ UNCHANGED <<growthFactor, backoffFactor, growthInterval, enabled>>

\* the trailing step() calls that found no overflow while enabled
WindowAfter(g) ==
    IF ~enabled \/ FoundInf(g) THEN <<>>
    ELSE LET w == Append(window, scale)
         IN  IF Len(w) > growthInterval THEN Tail(w) ELSE w

\* the count of the trailing enabled step() calls without overflow
StreakAfter(g) ==
    IF ~enabled THEN streak
    ELSE IF FoundInf(g) THEN 0 ELSE streak + 1

\* overflow backoffs less the growths that raised scale without being
\* clamped at line 62
NetAfter(g) ==
    IF ~enabled THEN netBackoffs
    ELSE IF FoundInf(g) THEN netBackoffs + 1
    ELSE IF unskippedSteps + 1 >= growthInterval /\ FMul(scale, growthFactor) <= ScaleCap
         THEN netBackoffs - 1
         ELSE netBackoffs

\* the scaler alone: no Model around it
NoCull == [on |-> FALSE, keep |-> <<>>, rows |-> <<>>, opts |-> <<>>, nSplit |-> 0, nDup |-> 0]

ModelUnused ==
    /\ maxSteps = 0 /\ warmupLength = 0 /\ refineEvery = 1 /\ stopSplitAt = 0
    /\ attributes = [a \in Params |-> <<>>]
    /\ optimizers = [a \in Params |-> [expAvg |-> <<>>, expAvgSq |-> <<>>]]
    /\ visCounts = <<>>
    /\ step = 0
    /\ before = attributes
    /\ cull = NoCull
    /\ editedAt = -1

---------------------------------------------------------------------------
(* SpecDefault: the scaler as Model::Model leaves it, under step() calls *)

DefaultParams == Params

\* the backoffs followed up to; 166 of them take 65536 below the least float
MaxBackoffs == 167

InitDefault ==
    /\ mixedPrecision \in BOOLEAN
    /\ device \in Devices
    /\ LET sc == ManualGradScaler(DefaultInitScale, DefaultGrowth, DefaultBackoff,
                                  DefaultInterval)
       IN  /\ scale = sc.scale
           /\ growthFactor = sc.growthFactor
           /\ backoffFactor = sc.backoffFactor
           /\ growthInterval = sc.growthInterval
           /\ unskippedSteps = sc.unskippedSteps
    /\ enabled = GradScalerEnabled(mixedPrecision, device)
    /\ rawLoss = Pow2(0)
    /\ loss = Pow2(0)
    /\ grads = NoGrads
    /\ backGrads = NoGrads
    /\ last = NoCall
    /\ unscaled = NoCount
    /\ window = <<>>
    /\ calls = 0
    /\ streak = 0
    /\ netBackoffs = 0
    /\ phase = "idle"
    /\ ModelUnused

\* step(params) with the gradients of a backward pass of the scaled loss
DefaultStep ==
    \E g \in {Gradients(ScaleGradients(enabled, scale, Pow2(0)), DefaultParams, b, FNaN) :
                b \in {"none", "means"}} :
        /\ grads' = g
        /\ StepFields(g)
        /\ netBackoffs' = NetAfter(g)
        /\ netBackoffs' \in 0..MaxBackoffs
        /\ UNCHANGED <<rawLoss, loss, backGrads, unscaled, window, calls, streak, phase,
                       configVars, modelVars>>

NextDefault == DefaultStep

SpecDefault == InitDefault /\ [][NextDefault]_vars

\* C1: with the default arguments, in every state reachable by step() calls,
\* scale is at most 65536 and is positive.
C1_ScaleInRange == scale <= ScaleCap /\ scale >= 1

---------------------------------------------------------------------------
(* SpecScaler: one scaler, driven through the caller's training step:       *)
(* scaleGradients, backward, step, unscaleGradients per gradient, zero_grad *)

MaxInterval == 3
MaxCalls == 6
MaxUnscale == 2

\* constructor arguments: the default scale, and two scales that backoffs
\* from it pass through (2^1 after 15 of them, 2^-148 after 164)
InitScales == {Pow2(16), Pow2(1), Pow2(-148)}
Intervals == 1..MaxInterval

\* the parameters the caller hands to step(); the others have no gradient
ScalerParams == {"means", "opacities"}

InitScaler ==
    /\ mixedPrecision \in BOOLEAN
    /\ device \in Devices
    /\ \E s0 \in InitScales, gi \in Intervals :
        LET sc == ManualGradScaler(s0, DefaultGrowth, DefaultBackoff, gi)
        IN  /\ scale = sc.scale
            /\ growthFactor = sc.growthFactor
            /\ backoffFactor = sc.backoffFactor
            /\ growthInterval = sc.growthInterval
            /\ unskippedSteps = sc.unskippedSteps
    /\ enabled = GradScalerEnabled(mixedPrecision, device)
    /\ rawLoss = Pow2(0)
    /\ loss = Pow2(0)
    /\ grads = NoGrads
    /\ backGrads = NoGrads
    /\ last = NoCall
    /\ unscaled = NoCount
    /\ window = <<>>
    /\ calls = 0
    /\ streak = 0
    /\ netBackoffs = 0
    /\ phase = "idle"
    /\ ModelUnused

\* (mutant) scaleGradients that keeps the scaled loss in scale
CallScaleGradientsStoring ==
    /\ phase = "idle"
    /\ \E l \in Losses :
        /\ rawLoss' = l
        /\ loss' = ScaleGradients(enabled, scale, l)
        /\ last' = Call("scaleGradients", l, "none", FALSE, TRUE)
    /\ scale' = loss'
    /\ phase' = "scaled"
    /\ UNCHANGED <<growthFactor, backoffFactor, growthInterval, unskippedSteps, enabled,
                   grads, backGrads, unscaled, window, calls, streak, netBackoffs, configVars, modelVars>>

\* scaleGradients(loss)
CallScaleGradients ==
    /\ phase = "idle"
    /\ \E l \in Losses :
        /\ rawLoss' = l
        /\ loss' = ScaleGradients(enabled, scale, l)
        /\ last' = Call("scaleGradients", l, "none", FALSE, TRUE)
    /\ phase' = "scaled"
    /\ UNCHANGED <<scalerVars, grads, backGrads, unscaled, window, calls, streak, netBackoffs, configVars, modelVars>>

\* loss.backward()
Backward ==
    /\ phase = "scaled"
    /\ \E g \in GradientChoices(loss, ScalerParams) :
        /\ grads' = g
        /\ backGrads' = g
    /\ unscaled' = NoCount
    /\ phase' = "grads"
    /\ UNCHANGED <<scalerVars, rawLoss, loss, last, window, calls, streak, netBackoffs, configVars, modelVars>>

\* step(params)
CallStep ==
    /\ phase = "grads"
    /\ calls < MaxCalls
    /\ StepFields(grads)
    /\ window' = WindowAfter(grads)
    /\ calls' = calls + 1
    /\ streak' = StreakAfter(grads)
    /\ UNCHANGED netBackoffs
    /\ phase' = IF last'.ret THEN "stepped" ELSE "idle"
    /\ UNCHANGED <<tensorVars, backGrads, unscaled, configVars, modelVars>>

\* unscaleGradients(grad) on one parameter's gradient
CallUnscaleGradients ==
    /\ phase = "stepped"
    /\ \E p \in ScalerParams :
        /\ unscaled[p] < MaxUnscale
        /\ grads' = [grads EXCEPT ![p] = UnscaleGradients(enabled, scale, grads[p])]
        /\ unscaled' = [unscaled EXCEPT ![p] = @ + 1]
        /\ last' = Call("unscaleGradients", grads[p], p, FALSE, TRUE)
    /\ UNCHANGED <<scalerVars, rawLoss, loss, backGrads, window, calls, streak, netBackoffs, phase, configVars, modelVars>>

\* the optimizers consume the gradients; zero_grad before the next step
ZeroGrad ==
    /\ phase = "stepped"
    /\ grads' = NoGrads
    /\ phase' = "idle"
    /\ UNCHANGED <<scalerVars, rawLoss, loss, last, backGrads, unscaled, window, calls, streak, netBackoffs, configVars, modelVars>>

NextScaler ==
    \/ CallScaleGradients
    \/ Backward
    \/ CallStep
    \/ CallUnscaleGradients
    \/ ZeroGrad

SpecScaler == InitScaler /\ [][NextScaler]_vars

\* half of a float and the capped double of a float, on the codes
HalfOf(c) == IF c <= 1 THEN 0 ELSE c - 1
CappedDoubleOf(c) == IF c = 0 THEN 0 ELSE IF c + 1 > Pow2(16) THEN Pow2(16) ELSE c + 1

\* C2: an enabled step() call that finds a non-finite gradient leaves scale at
\* half its value before the call (one multiplication by 0.5), sets
\* unskippedSteps to 0 and returns false.
C2_Backoff ==
    (last.op = "step" /\ enabled /\ last.foundInf) =>
        /\ scale = HalfOf(last.scale)
        /\ unskippedSteps = 0
        /\ last.ret = FALSE

\* an overflow arrives with unskippedSteps > 0 and the scale is halved
C2_Witness ==
    /\ last.op = "step" /\ enabled /\ last.foundInf
    /\ last.unskippedSteps > 0
    /\ scale = last.scale - 1

\* C3: after any growthInterval consecutive enabled step() calls without
\* overflow, scale is min(2 * scale before the run, 65536).
C3_GrowthOncePerInterval ==
    (enabled /\ Len(window) = growthInterval) => scale = CappedDoubleOf(window[1])

\* a run that began with unskippedSteps > 0 and doubled the scale part way
C3_Witness ==
    /\ enabled /\ Len(window) = growthInterval
    /\ scale = window[1] + 1
    /\ unskippedSteps > 0

\* C5: disabled, scaleGradients returns the loss, unscaleGradients leaves the
\* gradient as it was and step() returns true without changing scale or
\* unskippedSteps; enabled, scaleGradients returns loss * scale.
C5_DisabledIsIdentity ==
    /\ (~enabled /\ last.op = "scaleGradients") => loss = last.arg
    /\ (~enabled /\ last.op = "unscaleGradients" /\ phase = "stepped") =>
            grads[last.param] = last.arg
    /\ (~enabled /\ last.op = "step") =>
            /\ last.ret
            /\ scale = last.scale
            /\ unskippedSteps = last.unskippedSteps
    /\ (enabled /\ last.op = "scaleGradients") =>
            /\ last.scale = scale
            /\ loss = Round(last.arg + scale - FloatBias)

\* disabled, step() has just returned true on a non-finite gradient
C5_Witness == ~enabled /\ last.op = "step" /\ last.foundInf /\ last.ret

\* C6: in a step that ran scaleGradients, backward, step() and then
\* unscaleGradients once per gradient, every gradient equals the gradient of
\* the unscaled loss (stated for a scaled loss that neither underflowed nor
\* overflowed).
C6_UnscaleRestoresGradient ==
    (/\ phase = "stepped" /\ enabled
     /\ loss >= 1 /\ loss <= FloatMax
     /\ \A p \in ScalerParams : unscaled[p] = 1)
        => \A p \in ScalerParams : grads[p] = TrueGrad(rawLoss)

RECURSIVE DivTimes(_, _, _)
DivTimes(g, s, k) == IF k = 0 THEN g ELSE DivTimes(FDiv(g, s), s, k - 1)

\* no value on the way from the loss to the gradient of p left the normal range
InRange(p) ==
    /\ scale >= 1 /\ scale <= FloatMax
    /\ loss >= 1 /\ loss <= FloatMax
    /\ grads[p] >= 1 /\ grads[p] <= FloatMax

---------------------------------------------------------------------------
(* Model *)

MaxPoints == 2
MaxRows == 3
MaxSteps == 4

\* values stand for tensor rows: an attribute row holds the input point it
\* descends from (pt) and the number of optimizer updates applied to it (v), a
\* moment row the number of gradients accumulated in it (m); NaNRow is the
\* value after a non-finite gradient was applied
NaNRow == -1

\* (mutant) a window that does not stop half way
StopSplitAtEnd(ms) == ms

\* Model::Model, the initializer list: stopSplitAt(maxSteps / 2)
StopSplitAt(ms) == ms \div 2

\* Model::Model, lines 89-107: every attribute gets numPoints rows
AttributeRows(numPoints) ==
    [a \in Params |-> [i \in 1..numPoints |-> [pt |-> i, v |-> 0]]]

\* setupOptimizers(): one Adam per attribute, both moments zero, a row per point
SetupOptimizers(numPoints) ==
    [a \in Params |->
        [expAvg |-> [i \in 1..numPoints |-> [m |-> 0]],
         expAvgSq |-> [i \in 1..numPoints |-> [m |-> 0]]]]

Rows(a) == Len(attributes[a])

\* one Adam update of a row under gradient g
Bump(x, g) == IF g > FloatMax \/ x = NaNRow THEN NaNRow ELSE x + 1

\* optimizersStep(): each optimizer updates its attribute and its moments from
\* the attribute's gradient; a parameter without gradient is skipped
AdamStep(rows, g) ==
    IF g = Undefined THEN rows
    ELSE [i \in 1..Len(rows) |-> [rows[i] EXCEPT !.v = Bump(@, g)]]

AdamMoments(opt, g) ==
    IF g = Undefined THEN opt
    ELSE [expAvg |-> [i \in 1..Len(opt.expAvg) |-> [opt.expAvg[i] EXCEPT !.m = Bump(@, g)]],
          expAvgSq |-> [i \in 1..Len(opt.expAvgSq) |-> [opt.expAvgSq[i] EXCEPT !.m = Bump(@, g)]]]

\* the rows of a sequence that a keep-mask keeps, in their order
RECURSIVE Keep(_, _)
Keep(rows, mask) ==
    IF rows = <<>> THEN <<>>
    ELSE (IF Head(mask) THEN <<Head(rows)>> ELSE <<>>) \o Keep(Tail(rows), Tail(mask))

\* (mutant) a prune that keeps the first M rows, M the number of rows to keep
KeepFirst(rows, mask) == SubSeq(rows, 1, Len(Keep(rows, mask)))

\* removeFromOptimizer(optimizer, newParam, deletedMask): both moment buffers
\* keep the rows that are not deleted
FilterMoments(buf, mask) == Keep(buf, mask)

\* (mutant) a prune that forgets the second moment
RemoveFromFirstMoment(opt, mask) ==
    [expAvg |-> FilterMoments(opt.expAvg, mask), expAvgSq |-> opt.expAvgSq]

RemoveFromOptimizer(opt, mask) ==
    [expAvg |-> FilterMoments(opt.expAvg, mask), expAvgSq |-> FilterMoments(opt.expAvgSq, mask)]

\* the indices with a given fate, in row order
RECURSIVE Picked(_, _, _)
Picked(fate, f, i) ==
    IF i > Len(fate) THEN <<>>
    ELSE (IF fate[i] = f THEN <<i>> ELSE <<>>) \o Picked(fate, f, i + 1)

\* nSamples new rows per index of idcs, in order
RECURSIVE Repeat(_, _)
Repeat(idcs, nSamples) ==
    IF idcs = <<>> THEN <<>>
    ELSE [k \in 1..nSamples |-> Head(idcs)] \o Repeat(Tail(idcs), nSamples)

\* the attribute rows split and duplicate append: copies of the source rows
NewRows(rows, src) == [k \in 1..Len(src) |-> rows[src[k]]]

\* (mutant) new moment rows copied from the source rows' moments
CopiedMoments(buf, src) == [k \in 1..Len(src) |-> buf[src[k]]]

\* the moment rows of new points: zero
ZeroMoments(buf, src) == [k \in 1..Len(src) |-> [m |-> 0]]

\* addToOptimizer(optimizer, newParam, idcs, nSamples): both moment buffers gain
\* nSamples zero rows per index, after the rows they have
AddToOptimizer(opt, src) ==
    [expAvg |-> opt.expAvg \o ZeroMoments(opt.expAvg, src),
     expAvgSq |-> opt.expAvgSq \o ZeroMoments(opt.expAvgSq, src)]

SplitSamples == 2
DupSamples == 1

\* afterTrain(step) acts on the rows at these steps
Refines(st) == st % refineEvery = 0 /\ warmupLength <= st /\ st < stopSplitAt

Fates == {"keep", "split", "dup", "prune"}

\* the statistics of one more step: every row was seen once more
Accumulate(counts, n) ==
    [i \in 1..n |-> (IF counts = <<>> THEN 0 ELSE counts[i]) + 1]

\* the backward passes of training: clean, or a NaN in the opacities' gradient
TrainGradients(l) ==
    {Gradients(l, Params, "none", FNaN), Gradients(l, Params, "opacities", FNaN)}

Init ==
    /\ mixedPrecision \in BOOLEAN
    /\ device \in Devices
    /\ maxSteps \in {MaxSteps - 1, MaxSteps}
    /\ warmupLength \in {0, 1}
    /\ refineEvery \in {1, 2}
    /\ stopSplitAt = StopSplitAt(maxSteps)
    /\ LET sc == ManualGradScaler(DefaultInitScale, DefaultGrowth, DefaultBackoff,
                                  DefaultInterval)
       IN  /\ scale = sc.scale
           /\ growthFactor = sc.growthFactor
           /\ backoffFactor = sc.backoffFactor
           /\ growthInterval = sc.growthInterval
           /\ unskippedSteps = sc.unskippedSteps
    /\ enabled = GradScalerEnabled(mixedPrecision, device)
    /\ \E numPoints \in 1..MaxPoints :
        /\ attributes = AttributeRows(numPoints)
        /\ optimizers = SetupOptimizers(numPoints)
    /\ visCounts = <<>>
    /\ step = 0
    /\ before = attributes
    /\ cull = NoCull
    /\ editedAt = -1
    /\ rawLoss = Pow2(0)
    /\ loss = Pow2(0)
    /\ grads = NoGrads
    /\ backGrads = NoGrads
    /\ last = NoCall
    /\ unscaled = NoCount
    /\ window = <<>>
    /\ calls = 0
    /\ streak = 0
    /\ netBackoffs = 0
    /\ phase = "idle"

\* optimizersZeroGrad(), forward(), mainLoss(), scaleGradients(), backward()
ForwardBackward ==
    /\ phase = "idle"
    /\ step < maxSteps
    /\ rawLoss' = Pow2(0)
    /\ loss' = ScaleGradients(enabled, scale, rawLoss')
    /\ \E g \in TrainGradients(loss') :
        /\ grads' = g
        /\ backGrads' = g
    /\ last' = Call("scaleGradients", rawLoss', "none", FALSE, TRUE)
    /\ unscaled' = NoCount
    /\ before' = attributes
    /\ cull' = NoCull
    /\ phase' = "grads"
    /\ UNCHANGED <<scalerVars, window, calls, streak, netBackoffs, configVars, attributes, optimizers,
                   visCounts, step, editedAt>>

\* gradScaler.step(params): the update is applied only when it returns true
ScalerStep ==
    /\ phase = "grads"
    /\ StepFields(grads)
    /\ phase' = IF last'.ret THEN "stepped" ELSE "after"
    /\ UNCHANGED <<tensorVars, backGrads, unscaled, window, calls, streak, netBackoffs, configVars, modelVars>>

\* unscaleGradients() on every gradient, optimizersStep(), schedulersStep()
OptimizersStep ==
    /\ phase = "stepped"
    /\ LET g == [a \in Params |-> UnscaleGradients(enabled, scale, grads[a])]
       IN  /\ grads' = g
           /\ attributes' = [a \in Params |-> AdamStep(attributes[a], g[a])]
           /\ optimizers' = [a \in Params |-> AdamMoments(optimizers[a], g[a])]
    /\ unscaled' = [a \in Params |-> 1]
    /\ phase' = "after"
    /\ UNCHANGED <<scalerVars, rawLoss, loss, last, backGrads, window, calls, streak, netBackoffs, configVars,
                   visCounts, step, before, cull, editedAt>>

\* afterTrain(step): accumulate the statistics; at a refinement step split,
\* duplicate and prune the rows, every attribute and every optimizer alike
AfterTrain ==
    /\ phase = "after"
    /\ IF Refines(step)
       THEN \E fate \in [1..Rows("means") -> Fates] :
            LET splits == Repeat(Picked(fate, "split", 1), SplitSamples)
                dups == Repeat(Picked(fate, "dup", 1), DupSamples)
                src == splits \o dups
                mask == [i \in 1..(Len(fate) + Len(src)) |->
                            i > Len(fate) \/ fate[i] \in {"keep", "dup"}]
                grown == [a \in Params |-> attributes[a] \o NewRows(attributes[a], src)]
                added == [a \in Params |-> AddToOptimizer(optimizers[a], src)]
            IN  /\ Len(Keep(grown["means"], mask)) <= MaxRows
                /\ attributes' = [a \in Params |-> Keep(grown[a], mask)]
                /\ optimizers' = [a \in Params |-> RemoveFromOptimizer(added[a], mask)]
                /\ cull' = [on |-> TRUE, keep |-> mask, rows |-> grown, opts |-> added,
                            nSplit |-> Len(Picked(fate, "split", 1)),
                            nDup |-> Len(Picked(fate, "dup", 1))]
                /\ editedAt' = IF \E i \in 1..Len(fate) : fate[i] # "keep"
                               THEN step ELSE editedAt
                /\ visCounts' = <<>>
       ELSE /\ visCounts' = Accumulate(visCounts, Rows("means"))
            /\ UNCHANGED <<attributes, optimizers, cull, editedAt>>
    /\ step' = step + 1
    /\ phase' = "idle"
    /\ UNCHANGED <<scalerVars, tensorVars, historyVars, configVars, before>>

Next ==
    \/ ForwardBackward
    \/ ScalerStep
    \/ OptimizersStep
    \/ AfterTrain

Spec == Init /\ [][Next]_vars

\* C4 as stated: in every configuration, a step whose backward pass left a
\* NaN in a gradient has step() return false, the scale halved and every
\* attribute as it was before the step.
C4_NaNSkipsUpdate ==
    (phase = "after" /\ \E a \in Params : backGrads[a] = FNaN) =>
        /\ last.ret = FALSE
        /\ scale = HalfOf(last.scale)
        /\ attributes = before

\* C4, amended: that holds when the scaler is enabled; when it is not, step()
\* returns true and leaves the scale as it was.
C4_NaNSkipsUpdateWhenEnabled ==
    (phase = "after" /\ \E a \in Params : backGrads[a] = FNaN) =>
        IF enabled
        THEN /\ last.ret = FALSE
             /\ scale = HalfOf(last.scale)
             /\ attributes = before
        ELSE /\ last.ret = TRUE
             /\ scale = last.scale

\* enabled, after updates were applied in earlier steps, a NaN step was skipped
C4_Witness ==
    /\ phase = "after" /\ enabled
    /\ backGrads["opacities"] = FNaN
    /\ step > 0
    /\ \E i \in 1..Rows("means") : attributes["means"][i].v > 0

\* C8: the six attributes and the two moment buffers of each of the six
\* optimizers have the same number of rows, in every state.
C8_RowCountsAgree ==
    \A a \in Params :
        /\ Rows(a) = Rows("means")
        /\ Len(optimizers[a].expAvg) = Rows("means")
        /\ Len(optimizers[a].expAvgSq) = Rows("means")

\* right before an optimizer step, after a structural edit left more rows than
\* any model is constructed with
C8_Witness ==
    /\ phase = "stepped"
    /\ editedAt # -1
    /\ Rows("opacities") > MaxPoints

InWindow(st) == warmupLength <= st /\ st < maxSteps \div 2

\* C9: stopSplitAt is maxSteps / 2; the row count changes only in afterTrain
\* at a step with warmupLength <= step < stopSplitAt; an afterTrain at any
\* other step leaves every row count as it is and adds the step to the
\* statistics.
C9_EditsOnlyInWindow ==
    /\ [](stopSplitAt = maxSteps \div 2)
    /\ [][(\E a \in Params : Len(attributes'[a]) # Len(attributes[a]))
            => (phase = "after" /\ InWindow(step))]_vars
    /\ [][(phase = "after" /\ phase' = "idle" /\ ~InWindow(step)) =>
            /\ \A a \in Params :
                /\ Len(attributes'[a]) = Len(attributes[a])
                /\ Len(optimizers'[a].expAvg) = Len(optimizers[a].expAvg)
                /\ Len(optimizers'[a].expAvgSq) = Len(optimizers[a].expAvgSq)
            /\ Len(visCounts') = Rows("means")
            /\ \A i \in 1..Rows("means") :
                visCounts'[i] = (IF visCounts = <<>> THEN 0 ELSE visCounts[i]) + 1
            /\ editedAt' = editedAt]_vars

\* rows were edited at a step after the first, and training is past the window
\* with statistics of more than one step
C9_Witness ==
    /\ editedAt >= 1
    /\ step > stopSplitAt
    /\ Rows("means") >= 1
    /\ visCounts # <<>> /\ visCounts[1] > 1

CountTrue(mask) == Cardinality({i \in 1..Len(mask) : mask[i]})

\* the index of the k-th true value of mask, from index i on
RECURSIVE KthTrue(_, _, _)
KthTrue(mask, k, i) ==
    IF mask[i] THEN (IF k = 1 THEN i ELSE KthTrue(mask, k - 1, i + 1))
    ELSE KthTrue(mask, k, i + 1)

\* C10: after a prune by a keep-mask with M true values, every attribute and
\* both moment buffers of every optimizer have M rows, and row k of each is
\* the row that stood at the k-th true position of the mask.
C10_PruneKeepsMaskedRows ==
    (phase = "idle" /\ cull.on) =>
        LET M == CountTrue(cull.keep)
        IN  \A a \in Params :
                /\ Len(cull.rows[a]) = Len(cull.keep)
                /\ Len(attributes[a]) = M
                /\ Len(optimizers[a].expAvg) = M
                /\ Len(optimizers[a].expAvgSq) = M
                /\ \A k \in 1..M :
                    LET i == KthTrue(cull.keep, k, 1)
                    IN  /\ attributes[a][k] = cull.rows[a][i]
                        /\ optimizers[a].expAvg[k] = cull.opts[a].expAvg[i]
                        /\ optimizers[a].expAvgSq[k] = cull.opts[a].expAvgSq[i]

\* a mask that drops a row standing before one it keeps, whose moments differ
C10_Witness ==
    /\ phase = "idle" /\ cull.on
    /\ \E i, j \in 1..Len(cull.keep) :
        /\ i < j /\ ~cull.keep[i] /\ cull.keep[j]
        /\ cull.opts["means"].expAvg[i] # cull.opts["means"].expAvg[j]
        /\ cull.rows["means"][i] # cull.rows["means"][j]

\* rows 1..n of a buffer
Prefix(buf, n) == [i \in 1..n |-> buf[i]]

\* C11: an afterTrain that splits S points and duplicates D points appends
\* 2 * S + D rows to every attribute; both moment buffers of every optimizer
\* gain that many rows, all zero, after the rows they had, which keep their
\* moments (cull holds the tensors as they stood before the pruning).
C11_NewRowsGetZeroMoments ==
    [][(phase = "after" /\ cull'.on) =>
        LET n == 2 * cull'.nSplit + cull'.nDup
        IN  \A a \in Params :
                LET old == Len(attributes[a])
                IN  /\ Len(cull'.rows[a]) = old + n
                    /\ Prefix(cull'.rows[a], old) = attributes[a]
                    /\ Len(optimizers[a].expAvg) = old
                    /\ Len(optimizers[a].expAvgSq) = old
                    /\ Len(cull'.opts[a].expAvg) = old + n
                    /\ Len(cull'.opts[a].expAvgSq) = old + n
                    /\ Prefix(cull'.opts[a].expAvg, old) = optimizers[a].expAvg
                    /\ Prefix(cull'.opts[a].expAvgSq, old) = optimizers[a].expAvgSq
                    /\ \A i \in (old + 1)..(old + n) :
                        /\ cull'.opts[a].expAvg[i].m = 0
                        /\ cull'.opts[a].expAvgSq[i].m = 0]_vars

\* a point was split when the rows that were there had moments other than
\* zero
C11_Witness ==
    /\ phase = "idle" /\ cull.on
    /\ cull.nSplit >= 1
    /\ Len(cull.rows["quats"]) = Len(cull.keep)
    /\ cull.opts["quats"].expAvg[1].m # 0
    /\ cull.opts["quats"].expAvgSq[1].m # 0

---------------------------------------------------------------------------
(* SpecScan: step() over gradient tensors with more than one entry *)

TensorLen == 2

\* p.grad(): undefined, or a tensor of TensorLen entries, all finite or with
\* one infinity or NaN at some position
NoTensor == [defined |-> FALSE, entries |-> <<>>]
Tensors ==
    {NoTensor} \cup
    {[defined |-> TRUE, entries |-> [i \in 1..TensorLen |-> IF i = pos THEN v ELSE Pow2(0)]] :
        pos \in 1..TensorLen, v \in {Pow2(0), FInf, FNaN}}

\* (mutant) a scan that reads the first entry of a gradient only
FirstEntryOnly(t, bad) == t.entries[1] = bad

\* torch::isinf(grad).any() and torch::isnan(grad).any(), lines 46-47
AnyEntry(t, bad) == \E i \in 1..Len(t.entries) : t.entries[i] = bad

\* what lines 45-47 see of a gradient tensor
Scanned(t) ==
    IF ~t.defined THEN Undefined
    ELSE IF AnyEntry(t, FInf) THEN FInf
    ELSE IF AnyEntry(t, FNaN) THEN FNaN
    ELSE t.entries[1]

\* the gradients of the two parameters handed to step(); opacities has
\* none, a finite one, or one with a NaN in its last entry
ScanChoices ==
    {[p \in Params |-> IF p = "means" THEN tm ELSE IF p = "opacities" THEN topa ELSE NoTensor] :
        tm \in Tensors,
        topa \in {NoTensor,
                  [defined |-> TRUE, entries |-> [i \in 1..TensorLen |-> Pow2(0)]],
                  [defined |-> TRUE,
                   entries |-> [i \in 1..TensorLen |-> IF i = TensorLen THEN FNaN ELSE Pow2(0)]]}}

\* step(params) on gradient tensors
ScanStep ==
    /\ calls < MaxCalls
    /\ \E ts \in ScanChoices :
        /\ backGrads' = ts
        /\ grads' = [p \in Params |-> Scanned(ts[p])]
        /\ StepFields(grads')
    /\ calls' = calls + 1
    /\ UNCHANGED <<rawLoss, loss, unscaled, window, streak, netBackoffs, phase, configVars,
                   modelVars>>

NextScan == ScanStep

SpecScan == InitScaler /\ [][NextScan]_vars

NonFinite(v) == v = FInf \/ v = FNaN

\* C12: an enabled step() returns false exactly when some parameter has a
\* defined gradient with an infinity or a NaN in some entry; without any
\* defined gradient it returns true and counts the call in unskippedSteps
\* (which goes back to 0 when the count reaches growthInterval).
C12_FalseIffNonFiniteEntry ==
    (last.op = "step" /\ enabled) =>
        /\ last.ret = FALSE <=>
              \E p \in Params :
                  /\ backGrads[p].defined
                  /\ \E i \in 1..Len(backGrads[p].entries) :
                        NonFinite(backGrads[p].entries[i])
        /\ (\A p \in Params : ~backGrads[p].defined) =>
              /\ last.ret = TRUE
              /\ unskippedSteps = IF last.unskippedSteps + 1 >= growthInterval
                                  THEN 0 ELSE last.unskippedSteps + 1

\* false was returned for one NaN in the last entry of one gradient, the
\* other parameters having no gradient
C12_Witness ==
    /\ last.op = "step" /\ enabled /\ last.ret = FALSE
    /\ ~backGrads["means"].defined
    /\ backGrads["opacities"].defined
    /\ backGrads["opacities"].entries[1] = Pow2(0)
    /\ backGrads["opacities"].entries[TensorLen] = FNaN

---------------------------------------------------------------------------
(* SpecModelScaler: the scaler as Model::Model constructs it, under all of *)
(* its operations                                                          *)

SpecModelScaler == InitDefault /\ [][NextScaler]_vars

\* C13: Model::Model leaves scale = 65536, unskippedSteps = 0 and
\* enabled = (mixedPrecision and not CPU); afterwards no operation changes
\* enabled, growthFactor, backoffFactor or growthInterval, and only step()
\* (the one operation of phase "grads") changes scale or unskippedSteps.
C13_OnlyStepChangesScalerState ==
    /\ scale = Pow2(16) /\ unskippedSteps = 0
    /\ enabled = (mixedPrecision /\ device # "cpu")
    /\ [][/\ enabled' = enabled
          /\ growthFactor' = growthFactor
          /\ backoffFactor' = backoffFactor
          /\ growthInterval' = growthInterval
          /\ phase # "grads" => (scale' = scale /\ unskippedSteps' = unskippedSteps)]_vars

\* scaleGradients and unscaleGradients have run on a scale that an earlier
\* step() had changed
C13_Witness ==
    /\ enabled /\ scale # Pow2(16)
    /\ last.op = "unscaleGradients" /\ last.scale = scale
    /\ unskippedSteps = 1

\* C18: loss scaling is enabled exactly when mixedPrecision is set and the
\* device is not the CPU; otherwise every step() call returns true and scale
\* stays 65536, whatever the gradients hold.
C18_DisabledOnCpuOrFullPrecision ==
    /\ enabled <=> (mixedPrecision /\ device # "cpu")
    /\ (device = "cpu" \/ ~mixedPrecision) =>
          /\ scale = Pow2(16)
          /\ last.op = "step" => last.ret = TRUE

\* mixed precision on the CPU: step() returned true over a non-finite gradient
C18_Witness ==
    /\ mixedPrecision /\ device = "cpu"
    /\ last.op = "step" /\ last.ret = TRUE /\ calls >= 2
    /\ \E p \in Params : backGrads[p] = FNaN \/ backGrads[p] = FInf

---------------------------------------------------------------------------
(* the counter of step(), in SpecScaler *)

\* C14: between step() calls 0 <= unskippedSteps < growthInterval, and
\* unskippedSteps is the number of enabled step() calls without overflow
\* since the latest overflow or growth; a growth happens at every
\* growthInterval-th such call in a row, so that number is the count since
\* the latest overflow modulo growthInterval.
C14_CounterBelowInterval ==
    /\ 0 <= unskippedSteps /\ unskippedSteps < growthInterval
    /\ unskippedSteps = streak % growthInterval

\* five enabled calls in a row without overflow at growthInterval 3: one
\* growth, and two calls counted since
C14_Witness ==
    /\ enabled /\ growthInterval = 3 /\ streak = 5 /\ unskippedSteps = 2
    /\ last.op = "step"

\* C15: a step() call raises scale only if it and the growthInterval - 1
\* enabled step() calls before it found no overflow and none of those
\* earlier calls changed scale (window holds the scale each of them started
\* from); so two increases are at least growthInterval such calls apart.
C15_GrowthNeedsFullInterval ==
    (last.op = "step" /\ scale > last.scale) =>
        /\ enabled /\ ~last.foundInf
        /\ Len(window) = growthInterval
        /\ \A i \in 1..Len(window) : window[i] = last.scale

\* growthInterval 3: an overflow in the first call, then three calls without,
\* the last of which raised scale
C15_Witness ==
    /\ last.op = "step" /\ scale > last.scale
    /\ growthInterval = 3 /\ calls = 4

---------------------------------------------------------------------------
(* the scale under the default arguments, in SpecDefault *)

\* C16: with the default arguments scale is 65536 * 2^(-k), where k >= 0 is
\* the number of overflow backoffs less the number of unclamped growths so
\* far; a growth at scale = 65536 leaves scale there and zeroes
\* unskippedSteps.
C16_ScaleIsCapHalvedNetTimes ==
    /\ netBackoffs >= 0
    /\ scale >= 1 /\ scale = ScaleCap - netBackoffs
    /\ (/\ enabled /\ last.op = "step" /\ ~last.foundInf
        /\ last.scale = ScaleCap
        /\ last.unskippedSteps + 1 >= growthInterval)
       => (scale = ScaleCap /\ unskippedSteps = 0)

---------------------------------------------------------------------------
(* SpecLive: step() called once in every training step, for ever *)

\* one training step: backward of the scaled loss, then step(params)
LiveStep ==
    \E g \in GradientChoices(ScaleGradients(enabled, scale, Pow2(0)), ScalerParams) :
        /\ grads' = g
        /\ StepFields(g)
        /\ UNCHANGED <<rawLoss, loss, backGrads, unscaled, window, calls, streak, netBackoffs,
                       phase, configVars, modelVars>>

NextLive == LiveStep

\* training does not stop: a step is always taken again
SpecLive == InitScaler /\ [][NextLive]_vars /\ WF_vars(LiveStep)

\* C17: with scaling enabled, if from some step on no gradient is
\* non-finite, then from some step on scale is 65536.
C17_ScaleReturnsToCap ==
    (enabled /\ <>[](~FoundInf(grads))) => <>[](scale = ScaleCap)

===========================================================================
